---- MODULE Spec2Model ----
(***************************************************************************)
(* Model of the rule engine of Modules/rule_processor.py:                  *)
(*   - parse_condition_for_record_rule, on condition strings (sequences of *)
(*     characters);                                                        *)
(*   - apply_record_level_rule and apply_dataset_level_rule, on a pool of  *)
(*     claim rows;                                                         *)
(*   - apply_rules, the sequential loop over the sorted rules.             *)
(***************************************************************************)
EXTENDS Integers, Sequences, FiniteSets, TLC

VARIABLES
    \* apply_rules
    claims_df,          \* the claims table: a sequence of rows (index label = position)
    rules_df,           \* the rules table as given, in file order
    rules_sorted,       \* rules_df after sort_values(by='Rule_ID')
    pc,                 \* position in apply_rules
    k,                  \* position of the loop in rules_sorted
    remaining_claims,   \* the pool: index labels still in it, ascending
    all_results,        \* one entry per rule that matched
    results_df,         \* the table apply_rules returns
    last,               \* what the last pass through the loop body printed and did
    \* parse_condition_for_record_rule
    rule_condition,     \* the condition string given
    parsed,             \* parse_condition_for_record_rule(rule_condition)
    reparsed,           \* parse_condition_for_record_rule(parsed)
    npc,                \* position of the normalisation run
    \* apply_dataset_level_rule called on its own
    ds_rule,            \* the condition given
    ds_result,          \* the rows it returned
    dpc                 \* position of the dataset run

vars == <<claims_df, rules_df, rules_sorted, pc, k, remaining_claims, all_results,
          results_df, last, rule_condition, parsed, reparsed, npc, ds_rule, ds_result, dpc>>

rulesVars == <<claims_df, rules_df, rules_sorted, pc, k, remaining_claims,
               all_results, results_df, last>>
normVars == <<rule_condition, parsed, reparsed, npc>>
dsVars == <<ds_rule, ds_result, dpc>>

----------------------------------------------------------------------------
(* Bounds.                                                                 *)

MaxCondLen == 6     \* longest condition string given to the normaliser
MaxClaims == 2      \* most rows of a claims table given to apply_rules
MaxRules == 2       \* most rows of a rules table
MaxPool == 3        \* most rows of a frame given to apply_dataset_level_rule alone
MaxFairClaims == 1  \* most rows of a claims table under the fair specification
MaxFairRules == 2   \* most rows of a rules table under the fair specification

----------------------------------------------------------------------------
(* parse_condition_for_record_rule.  A condition string is a sequence of  *)
(* one-character strings; "<" stands for both angle brackets, which the    *)
(* pattern treats alike.  A placeholder __QUOTE_i__ is one token: the      *)
(* alphabet has no underscore, so no input contains a placeholder.         *)

Chars == {"a", "=", "!", "<", "\""}

CondStrings == UNION {[1..n -> Chars] : n \in 0..MaxCondLen}

\* the class [<>=!] of the lookbehind
OpChars == {"<", ">", "=", "!"}

\* the pattern (?<![<>=!])=  : the lookahead (?!=) dropped
IsBareEqNoLookahead(s, i) ==
    /\ s[i] = "="
    /\ (i = 1 \/ s[i-1] \notin OpChars)

\* the pattern (?<![<>=!])=(?!=) matches at position i
IsBareEq(s, i) ==
    /\ s[i] = "="
    /\ (i = 1 \/ s[i-1] \notin OpChars)
    /\ (i = Len(s) \/ s[i+1] /= "=")

\* re.sub(pattern, '==', s), from position i on
RECURSIVE SubBareEquals(_, _)
SubBareEquals(s, i) ==
    IF i > Len(s) THEN <<>>
    ELSE (IF IsBareEq(s, i) THEN <<"=", "=">> ELSE <<s[i]>>) \o SubBareEquals(s, i + 1)

PlaceholderNames ==
    <<"__QUOTE_0__", "__QUOTE_1__", "__QUOTE_2__", "__QUOTE_3__", "__QUOTE_4__",
      "__QUOTE_5__", "__QUOTE_6__", "__QUOTE_7__">>

\* f"__QUOTE_{i}__"
Placeholder(i) == PlaceholderNames[i + 1]

\* first position >= i holding a double quote, 0 if none
NextQuote(s, i) ==
    LET at == {j \in i..Len(s) : s[j] = "\""}
    IN IF at = {} THEN 0 ELSE CHOOSE j \in at : \A j2 \in at : j <= j2

\* re.sub(r'"([^"]*)"', replace_quotes, s) from position i on, n spans
\* replaced so far: the text with placeholders, and quoted_parts in order
RECURSIVE replace_quotes(_, _, _)
replace_quotes(s, i, n) ==
    LET p == NextQuote(s, i)
        q == IF p = 0 THEN 0 ELSE NextQuote(s, p + 1)
    IN IF q = 0
       THEN [text |-> SubSeq(s, i, Len(s)), quoted_parts |-> <<>>]
       ELSE LET rest == replace_quotes(s, q + 1, n + 1)
            IN [text |-> SubSeq(s, i, p - 1) \o <<Placeholder(n)>> \o rest.text,
                quoted_parts |-> <<SubSeq(s, p, q)>> \o rest.quoted_parts]

\* str.replace(tok, rep)
RECURSIVE ReplaceToken(_, _, _)
ReplaceToken(s, tok, rep) ==
    IF s = <<>> THEN <<>>
    ELSE (IF Head(s) = tok THEN rep ELSE <<Head(s)>>) \o ReplaceToken(Tail(s), tok, rep)

\* for placeholder, original in quoted_parts.items(): parsed.replace(...)
RECURSIVE RestoreQuotes(_, _, _)
RestoreQuotes(text, quoted_parts, n) ==
    IF n > Len(quoted_parts) THEN text
    ELSE RestoreQuotes(ReplaceToken(text, Placeholder(n - 1), quoted_parts[n]),
                       quoted_parts, n + 1)

parse_condition_for_record_rule(c) ==
    LET substituted == SubBareEquals(c, 1)
        protected == replace_quotes(substituted, 1, 0)
    IN RestoreQuotes(protected.text, protected.quoted_parts, 1)

----------------------------------------------------------------------------
(* Cell values.  A cell of a pandas frame is a number, a timestamp (Date,  *)
(* counted in days from the epoch), a text that parses neither as a number *)
(* nor as a date (Str), a missing number (NaN) or a missing date (NaT).    *)

Num(n) == [k |-> "num", v |-> n]
Date(d) == [k |-> "date", v |-> d]
Str(s) == [k |-> "str", v |-> s]
NaN == [k |-> "nan", v |-> 0]
NaT == [k |-> "nat", v |-> 0]

\* the columns of the claims table
Columns == <<"member_id", "claim_service_from", "paid_amount">>
ColumnSet == {Columns[i] : i \in 1..Len(Columns)}

\* 'date' in f.lower() or 'from' in f.lower() or 'to' in f.lower()
DateNamed(f) == f \in {"claim_service_from", "claim_service_to", "paid_date"}

\* the operators an extractor's [<>=!]+ can capture (others are never used here)
Ops == {"=", "==", "!=", "<", "<=", ">", ">="}
\* the operators the if/elif chains know
FilterOps == {"==", "!=", "<", "<=", ">", ">="}

OpText == [o \in Ops |->
    CASE o = "=" -> <<"=">>
      [] o = "==" -> <<"=", "=">>
      [] o = "!=" -> <<"!", "=">>
      [] o = "<" -> <<"<">>
      [] o = "<=" -> <<"<", "=">>
      [] o = ">" -> <<">">>
      [] o = ">=" -> <<">", "=">>]

\* the operator of a comparison after parse_condition_for_record_rule
NormOp(o) == CHOOSE o2 \in Ops : OpText[o2] = parse_condition_for_record_rule(OpText[o])

\* a op b on two numbers
NumCmp(a, o, b) ==
    CASE o = "==" -> a = b
      [] o = "!=" -> a /= b
      [] o = "<" -> a < b
      [] o = "<=" -> a <= b
      [] o = ">" -> a > b
      [] o = ">=" -> a >= b

\* series op literal, for one element: "T", "F", or "E" when pandas raises
\* TypeError (an ordering of a text or a timestamp against a number, or of a
\* non-text against a text)
CmpElem(v, o, lit) ==
    IF v.k = lit.k /\ v.k \in {"num", "str"}
    THEN (IF NumCmp(v.v, o, lit.v) THEN "T" ELSE "F")
    ELSE IF o = "==" THEN "F"
    ELSE IF o = "!=" THEN "T"
    ELSE IF v.k = "nan" /\ lit.k = "num" THEN "F"
    ELSE "E"

----------------------------------------------------------------------------
(* Conditions.  A condition string is modelled by its atoms, in order,     *)
(* joined by AND (and for a Record rule):                                   *)
(*    self:  f1 = f1                                                       *)
(*    val:   f1 op lit        (lit a number or a quoted text)              *)
(*    diff:  f1 - f2 op lit   (lit a number)                               *)
(*    bad:   text that is no expression and that no pattern matches        *)

SelfAtom(f) == [t |-> "self", f1 |-> f, f2 |-> f, op |-> "=", lit |-> Num(0)]
ValAtom(f, o, lit) == [t |-> "val", f1 |-> f, f2 |-> f, op |-> o, lit |-> lit]
DiffAtom(f, g, o, n) == [t |-> "diff", f1 |-> f, f2 |-> g, op |-> o, lit |-> Num(n)]
BadAtom == [t |-> "bad", f1 |-> "", f2 |-> "", op |-> "=", lit |-> Num(0)]

\* re.finditer(r'(\w+)\s*=\s*\1'): only "f = f" has the same word on both sides
extract_self_comparisons(cond) ==
    LET hits == SelectSeq(cond, LAMBDA a : a.t = "self")
    IN [i \in 1..Len(hits) |-> hits[i].f1]

\* the numeric pattern (\w+)\s*([<>=!]+)\s*(\d+(?:\.\d+)?) matches "f op n", and
\* inside "f1 - f2 op n" it matches "f2 op n"; the text pattern matches
\* f op "text".  Numeric matches come first.
extract_value_comparisons(cond) ==
    LET numeric == SelectSeq(cond, LAMBDA a :
                       \/ a.t = "diff"
                       \/ a.t = "val" /\ a.lit.k = "num")
        text == SelectSeq(cond, LAMBDA a : a.t = "val" /\ a.lit.k = "str")
    IN [i \in 1..Len(numeric) |->
            [field |-> numeric[i].f2, op |-> numeric[i].op, value |-> numeric[i].lit]]
       \o [i \in 1..Len(text) |->
            [field |-> text[i].f1, op |-> text[i].op, value |-> text[i].lit]]

\* (\w+)\s*-\s*(\w+)\s*([<>=!]+)\s*(\d+(?:\.\d+)?)
extract_field_differences(cond) ==
    LET hits == SelectSeq(cond, LAMBDA a : a.t = "diff")
    IN [i \in 1..Len(hits) |->
            [field1 |-> hits[i].f1, field2 |-> hits[i].f2, op |-> hits[i].op,
             threshold |-> hits[i].lit.v]]

----------------------------------------------------------------------------
(* apply_dataset_level_rule.  df is the claims table, pool the index       *)
(* labels of the frame it is called on, ascending.                         *)

\* the value filters, one after the other; raised when a comparison raises
RECURSIVE ValueFilter(_, _, _)
ValueFilter(df, rows, comps) ==
    IF comps = <<>> THEN [raised |-> FALSE, rows |-> rows]
    ELSE LET c == Head(comps)
         IN IF c.field \notin ColumnSet \/ c.op \notin FilterOps
            THEN ValueFilter(df, rows, Tail(comps))
            ELSE IF \E i \in 1..Len(rows) : CmpElem(df[rows[i]][c.field], c.op, c.value) = "E"
            THEN [raised |-> TRUE, rows |-> <<>>]
            ELSE ValueFilter(df,
                     SelectSeq(rows, LAMBDA r : CmpElem(df[r][c.field], c.op, c.value) = "T"),
                     Tail(comps))

\* the tuple of a row's values in the self-comparison fields
GroupKey(df, r, fields) == [i \in 1..Len(fields) |-> df[r][fields[i]]]

\* duplicated(subset=fields, keep=False), kept at every row: no duplicate mask
DuplicatedAll(df, rows, fields) == rows

\* filtered_df[filtered_df.duplicated(subset=fields, keep=False)]
Duplicated(df, rows, fields) ==
    SelectSeq(rows, LAMBDA r :
        \E i \in 1..Len(rows) :
            rows[i] /= r /\ GroupKey(df, rows[i], fields) = GroupKey(df, r, fields))

\* groupby drops the rows with a missing value in a key
NullKey(key) == \E i \in 1..Len(key) : key[i].k \in {"nan", "nat"}

\* an order on values and on keys, for the sorted group order of groupby
KindRank(v) == CASE v.k = "num" -> 1 [] v.k = "date" -> 2 [] v.k = "str" -> 3 [] OTHER -> 4
ValLess(a, b) == KindRank(a) < KindRank(b) \/ (KindRank(a) = KindRank(b) /\ a.v < b.v)
KeyLess(x, y) ==
    \E i \in 1..Len(x) : ValLess(x[i], y[i]) /\ \A j \in 1..(i - 1) : x[j] = y[j]

RECURSIVE SortKeys(_)
SortKeys(S) ==
    IF S = {} THEN <<>>
    ELSE LET m == CHOOSE x \in S : \A y \in S \ {x} : KeyLess(x, y)
         IN <<m>> \o SortKeys(S \ {m})

\* a timestamp as whole days and a remainder in nanoseconds: pd.to_datetime of
\* a number reads it as nanoseconds from the epoch
ToDatetime(v) ==
    CASE v.k = "date" -> [ok |-> TRUE, nat |-> FALSE, day |-> v.v, sub |-> 0]
      [] v.k = "num" -> [ok |-> TRUE, nat |-> FALSE, day |-> 0, sub |-> v.v]
      [] v.k \in {"nan", "nat"} -> [ok |-> TRUE, nat |-> TRUE, day |-> 0, sub |-> 0]
      [] OTHER -> [ok |-> FALSE, nat |-> FALSE, day |-> 0, sub |-> 0]

\* float(v)
ToFloat(v) ==
    CASE v.k = "num" -> [ok |-> TRUE, nan |-> FALSE, x |-> v.v]
      [] v.k = "nan" -> [ok |-> TRUE, nan |-> TRUE, x |-> 0]
      [] OTHER -> [ok |-> FALSE, nan |-> FALSE, x |-> 0]

Abs(n) == IF n < 0 THEN -n ELSE n

Fin(n) == [k |-> "fin", v |-> n]
Inf == [k |-> "inf", v |-> 0]
NanDiff == [k |-> "nan", v |-> 0]

\* abs((date1 - date2).days); the days of a Timedelta are the floor of its
\* length in days, and the days of NaT are nan
DateDiff(v1, v2) ==
    LET d1 == ToDatetime(v1)
        d2 == ToDatetime(v2)
    IN IF ~d1.ok \/ ~d2.ok THEN Inf
       ELSE IF d1.nat \/ d2.nat THEN NanDiff
       ELSE Fin(Abs((d1.day - d2.day) + (IF d1.sub >= d2.sub THEN 0 ELSE -1)))

\* abs(float(a) - float(b))
NumDiff(v1, v2) ==
    LET x1 == ToFloat(v1)
        x2 == ToFloat(v2)
    IN IF ~x1.ok \/ ~x2.ok THEN Inf
       ELSE IF x1.nan \/ x2.nan THEN NanDiff
       ELSE Fin(Abs(x1.x - x2.x))

\* the distance of one constraint on a pair of rows
PairDiff(row1, row2, fd) ==
    IF DateNamed(fd.field1)
    THEN DateDiff(row1[fd.field1], row2[fd.field2])
    ELSE NumDiff(row1[fd.field1], row2[fd.field2])

\* diff op threshold, as Python compares floats
DiffCmp(diff, o, threshold) ==
    CASE diff.k = "fin" -> NumCmp(diff.v, o, threshold)
      [] diff.k = "inf" -> o \in {">", ">=", "!="}
      [] OTHER -> o = "!="

\* the loop over field_differences: a constraint on a field that is no column,
\* or whose operator no branch knows, is passed over
differences_met(row1, row2, field_differences) ==
    \A n \in 1..Len(field_differences) :
        LET fd == field_differences[n]
        IN (fd.field1 \in ColumnSet /\ fd.field2 \in ColumnSet /\ fd.op \in FilterOps)
              => DiffCmp(PairDiff(row1, row2, fd), fd.op, fd.threshold)

\* the two loops over group.iterrows(): every i < j, row1 then row2 appended
\* for each accepted pair
RECURSIVE PairLoop(_, _, _, _, _)
PairLoop(df, group, a, b, field_differences) ==
    IF a > Len(group) THEN <<>>
    ELSE IF b > Len(group) THEN PairLoop(df, group, a + 1, 1, field_differences)
    ELSE (IF group[a] < group[b]
             /\ differences_met(df[group[a]], df[group[b]], field_differences)
          THEN <<group[a], group[b]>> ELSE <<>>)
         \o PairLoop(df, group, a, b + 1, field_differences)

RECURSIVE GroupLoop(_, _, _, _, _)
GroupLoop(df, rows, fields, keys, field_differences) ==
    IF keys = <<>> THEN <<>>
    ELSE PairLoop(df, SelectSeq(rows, LAMBDA r : GroupKey(df, r, fields) = Head(keys)),
                  1, 1, field_differences)
         \o GroupLoop(df, rows, fields, Tail(keys), field_differences)

\* drop_duplicates(): the first row of each content is kept
RECURSIVE DropDuplicates(_, _, _)
DropDuplicates(df, rows, i) ==
    IF i > Len(rows) THEN <<>>
    ELSE (IF \E j \in 1..(i - 1) : df[rows[j]] = df[rows[i]] THEN <<>> ELSE <<rows[i]>>)
         \o DropDuplicates(df, rows, i + 1)

\* the except branch of lines 213-216: an empty frame
DatasetExcept(pool) == [status |-> "error", rows |-> <<>>]

\* the rows returned (index labels, in order) and how the call ended:
\* "matched", "empty" (nothing matched), "unrecognized" (the warning at the
\* end), "error" (the except branch)
apply_dataset_level_rule(df, pool, cond) ==
    LET self_comparisons == extract_self_comparisons(cond)
        value_comparisons == extract_value_comparisons(cond)
        field_differences == extract_field_differences(cond)
        filtered == ValueFilter(df, pool, value_comparisons)
        potential_matches == Duplicated(df, filtered.rows, self_comparisons)
        keys == SortKeys({key \in {GroupKey(df, potential_matches[i], self_comparisons) :
                                      i \in 1..Len(potential_matches)} : ~NullKey(key)})
        results == GroupLoop(df, potential_matches, self_comparisons, keys, field_differences)
    IN IF filtered.raised THEN DatasetExcept(pool)
       ELSE IF filtered.rows = <<>> THEN [status |-> "empty", rows |-> <<>>]
       ELSE IF self_comparisons = <<>>
               \/ \E i \in 1..Len(self_comparisons) : self_comparisons[i] \notin ColumnSet
       THEN [status |-> "unrecognized", rows |-> <<>>]
       ELSE IF potential_matches = <<>> THEN [status |-> "empty", rows |-> <<>>]
       ELSE IF field_differences = <<>> THEN [status |-> "matched", rows |-> potential_matches]
       ELSE IF results /= <<>>
       THEN [status |-> "matched", rows |-> DropDuplicates(df, results, 1)]
       ELSE [status |-> "unrecognized", rows |-> <<>>]

----------------------------------------------------------------------------
(* apply_record_level_rule: df.query(parse_condition_for_record_rule(c)).  *)

\* one comparison of the query on one row: "T", "F", or "E" when it raises
QueryAtom(row, a) ==
    CASE a.t = "val" -> CmpElem(row[a.f1], NormOp(a.op), a.lit)
      [] a.t = "self" -> IF row[a.f1].k \in {"nan", "nat"} THEN "F" ELSE "T"
      [] a.t = "diff" ->
            IF row[a.f1].k = "num" /\ row[a.f2].k = "num"
            THEN (IF NumCmp(row[a.f1].v - row[a.f2].v, NormOp(a.op), a.lit.v) THEN "T" ELSE "F")
            ELSE IF {row[a.f1].k, row[a.f2].k} \subseteq {"num", "nan"}
            THEN (IF NormOp(a.op) = "!=" THEN "T" ELSE "F")
            ELSE "E"
      [] OTHER -> "E"

\* the query does not compile, names a column the frame does not have, or a
\* comparison raises: the except branch
QueryRaises(df, pool, cond) ==
    \/ cond = <<>>
    \/ \E n \in 1..Len(cond) :
          \/ cond[n].t = "bad"
          \/ cond[n].f1 \notin ColumnSet
          \/ cond[n].f2 \notin ColumnSet
          \/ \E i \in 1..Len(pool) : QueryAtom(df[pool[i]], cond[n]) = "E"

\* the except branch returning the frame it was given
RecordExceptKeepsFrame(pool) == [status |-> "error", rows |-> pool]

\* the except branch of lines 62-66: an empty frame
RecordExcept(pool) == [status |-> "error", rows |-> <<>>]

apply_record_level_rule(df, pool, cond) ==
    LET result_df == SelectSeq(pool, LAMBDA r :
                         \A n \in 1..Len(cond) : QueryAtom(df[r], cond[n]) = "T")
    IN IF QueryRaises(df, pool, cond) THEN RecordExcept(pool)
       ELSE IF result_df /= <<>> THEN [status |-> "matched", rows |-> result_df]
       ELSE [status |-> "empty", rows |-> <<>>]

----------------------------------------------------------------------------
(* apply_rules.                                                            *)

\* rules_df.sort_values(by='Rule_ID')
RECURSIVE SortByRuleID(_)
SortByRuleID(rules) ==
    IF rules = <<>> THEN <<>>
    ELSE LET m == CHOOSE i \in 1..Len(rules) :
                      \A j \in 1..Len(rules) : rules[i].Rule_ID <= rules[j].Rule_ID
         IN <<rules[m]>>
            \o SortByRuleID(SubSeq(rules, 1, m - 1) \o SubSeq(rules, m + 1, Len(rules)))

\* hash() of one cell.  hash(-1) is -2 in CPython, as is hash(-2).  The hash of
\* a float NaN is 0 before Python 3.10 and the object's address from 3.10 on:
\* the NaN of the matched copy and the NaN of the pool row are then equal or
\* different by the allocator's choice (stable or not).
HashValue(v, side, stable) ==
    IF v.k = "nan" THEN [k |-> "nan", v |-> IF stable THEN 0 ELSE side]
    ELSE IF v = Num(-1) THEN Num(-2)
    ELSE v

\* hash(tuple(row)) over the claims columns
MergeKey(row, side, stable) == [c \in ColumnSet |-> HashValue(row[c], side, stable)]

\* remaining_claims[~remaining_claims['__merge_key__'].isin(identified_claims['__merge_key__'])]
RemoveIdentified(df, pool, rows, stable) ==
    LET identified == {MergeKey(df[rows[i]], 1, stable) : i \in 1..Len(rows)}
    IN SelectSeq(pool, LAMBDA r : MergeKey(df[r], 2, stable) \notin identified)

\* the evaluator the level selects
Dispatch(df, pool, rule) ==
    IF rule.Level = "Record"
    THEN apply_record_level_rule(df, pool, rule.Rule_Allegation)
    ELSE apply_dataset_level_rule(df, pool, rule.Rule_Allegation)

\* result_df['rule_id'] = rule_id; result_df['rule_desc'] = rule_desc
Tagged(rows, rule) ==
    [i \in 1..Len(rows) |->
        [idx |-> rows[i], rule_id |-> rule.Rule_ID, rule_desc |-> rule.Rule_Desc]]

RECURSIVE Concat(_)
Concat(frames) == IF frames = <<>> THEN <<>> ELSE Head(frames) \o Concat(Tail(frames))

OutColumns == Columns \o <<"rule_id", "rule_desc">>

----------------------------------------------------------------------------
(* The inputs.                                                             *)

Row(m, d, p) == [member_id |-> m, claim_service_from |-> d, paid_amount |-> p]

\* the rows of the claims tables given to apply_rules
ClaimRows ==
    { Row(Num(1), Date(0), Num(-1)),
      Row(Num(1), Date(0), Num(-2)),
      Row(Num(2), Date(1), NaN),
      Row(Num(2), Date(10), Num(5)) }

ClaimTables == UNION {[1..n -> ClaimRows] : n \in 0..MaxClaims}

\* Level and Rule_Allegation of the rules given to apply_rules
RuleKinds ==
    { \* paid_amount != -2
      [Level |-> "Record", Rule_Allegation |-> <<ValAtom("paid_amount", "!=", Num(-2))>>],
      \* a condition that does not compile
      [Level |-> "Record", Rule_Allegation |-> <<BadAtom>>],
      \* member_id = member_id AND paid_amount - paid_amount != 7
      [Level |-> "DataSet", Rule_Allegation |->
          <<SelfAtom("member_id"), DiffAtom("paid_amount", "paid_amount", "!=", 7)>>],
      \* member_id = member_id AND claim_service_from - claim_service_from < 3
      [Level |-> "DataSet", Rule_Allegation |->
          <<SelfAtom("member_id"),
            DiffAtom("claim_service_from", "claim_service_from", "<", 3)>>],
      \* paid_amount > 1: no self-comparison
      [Level |-> "DataSet", Rule_Allegation |-> <<ValAtom("paid_amount", ">", Num(1))>>],
      \* a level that is neither Record nor DataSet
      [Level |-> "Claim", Rule_Allegation |-> <<ValAtom("member_id", ">=", Num(1))>>] }

\* the Rule_IDs 1..n down the rows of the file, ascending or descending
RowOrders(n) == {[i \in 1..n |-> i], [i \in 1..n |-> n + 1 - i]}

\* rules tables: distinct Rule_IDs, in ascending or descending row order
RuleTables ==
    UNION {{[i \in 1..n |->
                [Rule_ID |-> ids[i], Rule_Desc |-> "desc", Level |-> kinds[i].Level,
                 Rule_Allegation |-> kinds[i].Rule_Allegation]] :
              ids \in RowOrders(n), kinds \in [1..n -> RuleKinds]} : n \in 0..MaxRules}

NotReturned == [columns |-> <<>>, rows |-> <<>>]

NoRule == [Rule_ID |-> 0, Rule_Desc |-> "", Level |-> "", Rule_Allegation |-> <<>>]
NoPass == [what |-> "none", rule |-> NoRule, pool |-> <<>>, rows |-> <<>>]

\* the frames and conditions given to apply_dataset_level_rule alone
PoolRows ==
    {Row(Num(1), d, Num(5)) : d \in {Date(0), Date(1), Date(10), NaT}}
    \cup {Row(Num(2), Date(0), Num(5)), Row(Num(2), NaT, Num(5))}
    \cup {Row(Num(1), Date(0), p) : p \in {NaN, Str(1), Num(1)}}

PoolTables == UNION {[1..n -> PoolRows] : n \in 0..MaxPool}

PoolConditions ==
    { <<SelfAtom("member_id")>>,
      <<SelfAtom("member_id"), SelfAtom("claim_service_from")>>,
      <<SelfAtom("provider_npi")>>,
      <<ValAtom("paid_amount", ">", Num(1))>>,
      <<SelfAtom("member_id"), ValAtom("paid_amount", "=", Num(5))>>,
      <<SelfAtom("member_id"), ValAtom("paid_amount", "==", Num(5))>>,
      <<SelfAtom("member_id"), ValAtom("provider_npi", "==", Num(5))>>,
      <<SelfAtom("claim_service_from"), DiffAtom("paid_amount", "paid_amount", ">=", 0)>> }
    \cup {<<SelfAtom("member_id"),
            DiffAtom("claim_service_from", "claim_service_from", "<", n)>> : n \in {3, 5, 15}}
    \cup {<<SelfAtom("member_id"),
            DiffAtom("claim_service_from", "claim_service_from", "!=", 1)>>}
    \cup {<<SelfAtom("member_id"), DiffAtom("paid_amount", "member_id", c[1], c[2])>> :
            c \in {<<"<", 2>>, <<"<=", 1>>, <<"==", 1>>, <<">", 0>>, <<">=", 1>>, <<"!=", 0>>}}
    \cup { <<SelfAtom("member_id"), DiffAtom("paid_amount", "claim_service_from", "!=", 0)>>,
           <<SelfAtom("member_id"), DiffAtom("claim_service_from", "paid_amount", "!=", 0)>> }

----------------------------------------------------------------------------
(* apply_rules, one action for the set-up, one per way through the loop    *)
(* body, one for the return.                                               *)

InitNorm ==
    /\ rule_condition = <<>>
    /\ parsed = <<>>
    /\ reparsed = <<>>
    /\ npc = "off"

InitDS ==
    /\ ds_rule = <<>>
    /\ ds_result = [status |-> "empty", rows |-> <<>>]
    /\ dpc = "off"

InitRules ==
    /\ rules_df = <<>>
    /\ rules_sorted = <<>>
    /\ pc = "off"
    /\ k = 0
    /\ remaining_claims = <<>>
    /\ all_results = <<>>
    /\ results_df = NotReturned
    /\ last = NoPass

Init ==
    /\ claims_df \in ClaimTables
    /\ rules_df \in RuleTables
    /\ rules_sorted = <<>>
    /\ pc = "start"
    /\ k = 0
    /\ remaining_claims = <<>>
    /\ all_results = <<>>
    /\ results_df = NotReturned
    /\ last = NoPass
    /\ InitNorm
    /\ InitDS

\* lines 223-228
Start ==
    /\ pc = "start"
    /\ all_results' = <<>>
    /\ remaining_claims' = [i \in 1..Len(claims_df) |-> i]
    /\ rules_sorted' = SortByRuleID(rules_df)
    /\ k' = 1
    /\ pc' = "loop"
    /\ UNCHANGED <<claims_df, rules_df, results_df, last>>

\* the loop without the break of lines 241-243: on to the next rule
BreakGoesOn ==
    /\ pc = "loop"
    /\ k <= Len(rules_sorted)
    /\ remaining_claims = <<>>
    /\ k' = k + 1
    /\ last' = [what |-> "break", rule |-> rules_sorted[k], pool |-> remaining_claims,
                rows |-> <<>>]
    /\ UNCHANGED <<claims_df, rules_df, rules_sorted, pc, remaining_claims, all_results,
                   results_df>>

\* lines 241-243: no claims left
Break ==
    /\ pc = "loop"
    /\ k <= Len(rules_sorted)
    /\ remaining_claims = <<>>
    /\ pc' = "return"
    /\ last' = [what |-> "break", rule |-> rules_sorted[k], pool |-> remaining_claims,
                rows |-> <<>>]
    /\ UNCHANGED <<claims_df, rules_df, rules_sorted, k, remaining_claims, all_results,
                   results_df>>

\* lines 249-251: unknown level
SkipRule ==
    /\ pc = "loop"
    /\ k <= Len(rules_sorted)
    /\ remaining_claims /= <<>>
    /\ rules_sorted[k].Level \notin {"Record", "DataSet"}
    /\ k' = k + 1
    /\ last' = [what |-> "skip", rule |-> rules_sorted[k], pool |-> remaining_claims,
                rows |-> <<>>]
    /\ UNCHANGED <<claims_df, rules_df, rules_sorted, pc, remaining_claims, all_results,
                   results_df>>

\* lines 245-248 and 253-274: the rule matched
RuleMatched ==
    /\ pc = "loop"
    /\ k <= Len(rules_sorted)
    /\ remaining_claims /= <<>>
    /\ rules_sorted[k].Level \in {"Record", "DataSet"}
    /\ LET result == Dispatch(claims_df, remaining_claims, rules_sorted[k])
       IN /\ result.rows /= <<>>
          /\ all_results' = Append(all_results, Tagged(result.rows, rules_sorted[k]))
          /\ last' = [what |-> "matched", rule |-> rules_sorted[k],
                      pool |-> remaining_claims, rows |-> result.rows]
          /\ \E stable \in BOOLEAN :
                remaining_claims' =
                    RemoveIdentified(claims_df, remaining_claims, result.rows, stable)
    /\ k' = k + 1
    /\ UNCHANGED <<claims_df, rules_df, rules_sorted, pc, results_df>>

\* lines 245-248 and 275-276: the rule found no matches
RuleNoMatch ==
    /\ pc = "loop"
    /\ k <= Len(rules_sorted)
    /\ remaining_claims /= <<>>
    /\ rules_sorted[k].Level \in {"Record", "DataSet"}
    /\ Dispatch(claims_df, remaining_claims, rules_sorted[k]).rows = <<>>
    /\ k' = k + 1
    /\ last' = [what |-> "nomatch", rule |-> rules_sorted[k], pool |-> remaining_claims,
                rows |-> <<>>]
    /\ UNCHANGED <<claims_df, rules_df, rules_sorted, pc, remaining_claims, all_results,
                   results_df>>

\* the for loop is exhausted
LoopEnd ==
    /\ pc = "loop"
    /\ k > Len(rules_sorted)
    /\ pc' = "return"
    /\ UNCHANGED <<claims_df, rules_df, rules_sorted, k, remaining_claims, all_results,
                   results_df, last>>

\* the empty table of lines 283-285 without its columns
EmptyResultNoColumns == [columns |-> <<>>, rows |-> <<>>]

\* lines 283-285
EmptyResult == [columns |-> OutColumns, rows |-> <<>>]

\* lines 278-285
Return ==
    /\ pc = "return"
    /\ results_df' = IF all_results /= <<>>
                     THEN [columns |-> OutColumns, rows |-> Concat(all_results)]
                     ELSE EmptyResult
    /\ pc' = "done"
    /\ UNCHANGED <<claims_df, rules_df, rules_sorted, k, remaining_claims, all_results,
                   last>>

Next ==
    \/ (Start /\ UNCHANGED <<normVars, dsVars>>)
    \/ (Break /\ UNCHANGED <<normVars, dsVars>>)
    \/ (SkipRule /\ UNCHANGED <<normVars, dsVars>>)
    \/ (RuleMatched /\ UNCHANGED <<normVars, dsVars>>)
    \/ (RuleNoMatch /\ UNCHANGED <<normVars, dsVars>>)
    \/ (LoopEnd /\ UNCHANGED <<normVars, dsVars>>)
    \/ (Return /\ UNCHANGED <<normVars, dsVars>>)

Spec == Init /\ [][Next]_vars

\* apply_rules is one sequential call: a step that can be taken is taken, and
\* an evaluator called on a finite frame returns.  The tables of the fair
\* specification have their own bounds, and its rules tables are given in
\* Rule_ID order.
InitFair ==
    /\ claims_df \in UNION {[1..n -> ClaimRows] : n \in 0..MaxFairClaims}
    /\ rules_df \in {t \in RuleTables : Len(t) <= MaxFairRules /\ t = SortByRuleID(t)}
    /\ rules_sorted = <<>>
    /\ pc = "start"
    /\ k = 0
    /\ remaining_claims = <<>>
    /\ all_results = <<>>
    /\ results_df = NotReturned
    /\ last = NoPass
    /\ InitNorm
    /\ InitDS

\* lines 231-276: a pass over a rule ends and the loop takes up the next rule
NextRule ==
    /\ pc = "loop"
    /\ k <= Len(rules_sorted)
    /\ remaining_claims /= <<>>
    /\ k' = k + 1

FairSpec ==
    /\ InitFair
    /\ [][Next]_vars
    /\ WF_vars(Start /\ UNCHANGED <<normVars, dsVars>>)
    /\ WF_vars(Break /\ UNCHANGED <<normVars, dsVars>>)
    /\ WF_k(NextRule)
    /\ WF_vars(LoopEnd /\ UNCHANGED <<normVars, dsVars>>)
    /\ WF_vars(Return /\ UNCHANGED <<normVars, dsVars>>)

----------------------------------------------------------------------------
(* parse_condition_for_record_rule applied to a condition, then to its own *)
(* output.                                                                 *)

InitN ==
    /\ rule_condition \in CondStrings
    /\ parsed = <<>>
    /\ reparsed = <<>>
    /\ npc = "given"
    /\ claims_df = <<>>
    /\ InitRules
    /\ InitDS

Normalize ==
    /\ npc = "given"
    /\ parsed' = parse_condition_for_record_rule(rule_condition)
    /\ npc' = "parsed"
    /\ UNCHANGED <<rule_condition, reparsed>>

NormalizeAgain ==
    /\ npc = "parsed"
    /\ reparsed' = parse_condition_for_record_rule(parsed)
    /\ npc' = "reparsed"
    /\ UNCHANGED <<rule_condition, parsed>>

NextNorm ==
    \/ (Normalize /\ UNCHANGED <<rulesVars, dsVars>>)
    \/ (NormalizeAgain /\ UNCHANGED <<rulesVars, dsVars>>)

SpecNorm == InitN /\ [][NextNorm]_vars

----------------------------------------------------------------------------
(* apply_dataset_level_rule called once on a whole frame.                  *)

InitD ==
    /\ claims_df \in PoolTables
    /\ ds_rule \in PoolConditions
    /\ ds_result = [status |-> "empty", rows |-> <<>>]
    /\ dpc = "given"
    /\ InitRules
    /\ InitNorm

ApplyDataset ==
    /\ dpc = "given"
    /\ ds_result' = apply_dataset_level_rule(claims_df,
                        [i \in 1..Len(claims_df) |-> i], ds_rule)
    /\ dpc' = "done"
    /\ UNCHANGED ds_rule

NextDS == ApplyDataset /\ UNCHANGED <<rulesVars, normVars>>

SpecDS == InitD /\ [][NextDS]_vars

----------------------------------------------------------------------------
(* Properties of parse_condition_for_record_rule (SpecNorm).               *)

\* the bare = signs of the text outside double-quoted spans rewritten, the
\* spans put back as they were
NormalizedOutsideQuotes(c) ==
    LET protected == replace_quotes(c, 1, 0)
    IN RestoreQuotes(SubBareEquals(protected.text, 1), protected.quoted_parts, 1)

\* C6: the normalised condition is the condition with every bare = outside
\* double quotes rewritten to == and every double-quoted span returned
\* verbatim.
C6_QuotedSpansVerbatim ==
    npc = "parsed" => parsed = NormalizedOutsideQuotes(rule_condition)

\* one of ==, !=, <=, >= stands at positions i, i+1 of c, with no further
\* operator character next to it
MultiCharOpAt(c, i) ==
    /\ i + 1 <= Len(c)
    /\ c[i] \in {"=", "!", "<", ">"}
    /\ c[i + 1] = "="
    /\ (i = 1 \/ c[i - 1] \notin OpChars)
    /\ (i + 1 = Len(c) \/ c[i + 2] \notin OpChars)

----------------------------------------------------------------------------
(* Properties of apply_dataset_level_rule (SpecDS).                        *)

AllRows == [i \in 1..Len(claims_df) |-> i]
Returned == {ds_result.rows[i] : i \in 1..Len(ds_result.rows)}

\* the rule member_id = member_id AND claim_service_from - claim_service_from < n
IsDateThresholdRule(cond) ==
    /\ Len(cond) = 2
    /\ cond[1] = SelfAtom("member_id")
    /\ cond[2] = DiffAtom("claim_service_from", "claim_service_from", "<", cond[2].lit.v)

\* rows r and r2 are claims of one member with service dates fewer than n days apart
CloseDates(r, r2, n) ==
    /\ claims_df[r].member_id = claims_df[r2].member_id
    /\ claims_df[r].claim_service_from.k = "date"
    /\ claims_df[r2].claim_service_from.k = "date"
    /\ Abs(claims_df[r].claim_service_from.v - claims_df[r2].claim_service_from.v) < n

\* C5: under the rule member_id = member_id AND claim_service_from -
\* claim_service_from < N a claim is returned exactly when another claim of the
\* same member has a service date fewer than N days from its own.
C5_DateDifferenceThreshold ==
    (dpc = "done" /\ IsDateThresholdRule(ds_rule)) =>
        \A r \in 1..Len(claims_df) :
            (\E r2 \in 1..Len(claims_df) : r2 /= r /\ CloseDates(r, r2, ds_rule[2].lit.v))
            <=> (\E q \in Returned : claims_df[q] = claims_df[r])

\* the rows left by the value filters
Prefiltered ==
    LET f == ValueFilter(claims_df, AllRows, extract_value_comparisons(ds_rule))
    IN {f.rows[i] : i \in 1..Len(f.rows)}

\* C8: every returned row shares the values of the self-comparison fields with
\* another row of the prefiltered pool.
C8_MinimumGroupSize ==
    dpc = "done" =>
        \A r \in Returned :
            \E r2 \in Prefiltered :
                /\ r2 /= r
                /\ GroupKey(claims_df, r2, extract_self_comparisons(ds_rule))
                   = GroupKey(claims_df, r, extract_self_comparisons(ds_rule))

\* rows are returned while a prefiltered row that is alone in its group is not
C8_Witness ==
    /\ dpc = "done"
    /\ Returned /= {}
    /\ \E r \in Prefiltered \ Returned :
          \A r2 \in Prefiltered \ {r} :
              GroupKey(claims_df, r2, extract_self_comparisons(ds_rule))
              /= GroupKey(claims_df, r, extract_self_comparisons(ds_rule))

\* the rule member_id = member_id AND f1 - f2 op n on two columns
IsOneDifferenceRule(cond) ==
    /\ Len(cond) = 2
    /\ cond[1] = SelfAtom("member_id")
    /\ cond[2].t = "diff"
    /\ cond[2].f1 \in ColumnSet
    /\ cond[2].f2 \in ColumnSet
    /\ cond[2].op \in FilterOps

\* the value can not be parsed as a date (a date-named first field) or coerced
\* to a number (otherwise), or is missing
NoDistance(v, field1) ==
    IF DateNamed(field1) THEN v.k \in {"str", "nan", "nat"}
    ELSE v.k \in {"str", "nan", "nat", "date"}

\* rows i < j of one group of the prefiltered pool, a value of the pair unusable
NoDistancePair(i, j) ==
    /\ i \in Prefiltered
    /\ j \in Prefiltered
    /\ i < j
    /\ claims_df[i].member_id = claims_df[j].member_id
    /\ \/ NoDistance(claims_df[i][ds_rule[2].f1], ds_rule[2].f1)
       \/ NoDistance(claims_df[j][ds_rule[2].f2], ds_rule[2].f1)

\* C10: a pair with a value that gives no distance fails a constraint with <, <=
\* or == and satisfies one with >, >= or !=.  A satisfied pair has both rows
\* returned; a row all of whose pairs fail is not returned.
C10_InfiniteDistancePolarity ==
    (dpc = "done" /\ IsOneDifferenceRule(ds_rule)) =>
        /\ ds_rule[2].op \in {">", ">=", "!="} =>
              \A i, j \in 1..Len(claims_df) :
                  NoDistancePair(i, j) =>
                      /\ \E q \in Returned : claims_df[q] = claims_df[i]
                      /\ \E q \in Returned : claims_df[q] = claims_df[j]
        /\ ds_rule[2].op \in {"<", "<=", "=="} =>
              \A r \in Returned :
                  \E r2 \in Prefiltered :
                      /\ r2 /= r
                      /\ claims_df[r2].member_id = claims_df[r].member_id
                      /\ ~NoDistancePair(r, r2)
                      /\ ~NoDistancePair(r2, r)

----------------------------------------------------------------------------
(* Properties of apply_rules (Spec).                                       *)

Rows == results_df.rows

\* C1: in the returned table no claim (the tuple of its column values) stands
\* under two rule ids.
C1_MutualExclusivity ==
    pc = "done" =>
        \A i, j \in 1..Len(Rows) :
            claims_df[Rows[i].idx] = claims_df[Rows[j].idx]
                => Rows[i].rule_id = Rows[j].rule_id

\* the row satisfies the Record rule's condition
SatisfiesRecordRule(row, rule) ==
    /\ rule.Level = "Record"
    /\ \A n \in 1..Len(rule.Rule_Allegation) :
          /\ rule.Rule_Allegation[n].t = "val"
          /\ QueryAtom(row, rule.Rule_Allegation[n]) = "T"

\* C2: the rules are processed in ascending Rule_ID order whatever the order of
\* the rules table, and no returned row is tagged with a rule when it satisfies
\* a Record rule of a lower Rule_ID.
C2_FirstRuleWins ==
    pc = "done" =>
        /\ Len(rules_sorted) = Len(rules_df)
        /\ \A i, j \in 1..Len(rules_sorted) :
              i < j => rules_sorted[i].Rule_ID < rules_sorted[j].Rule_ID
        /\ \A i \in 1..Len(Rows) :
              \A n \in 1..Len(rules_df) :
                  (rules_df[n].Rule_ID < Rows[i].rule_id)
                      => ~SatisfiesRecordRule(claims_df[Rows[i].idx], rules_df[n])

\* the rule fails on the pool: an unknown level, a Record condition that does
\* not compile or whose evaluation raises, a DataSet condition whose value
\* filter raises or that has no self-comparison on columns
RuleFails(df, pool, rule) ==
    \/ rule.Level \notin {"Record", "DataSet"}
    \/ rule.Level = "Record" /\ QueryRaises(df, pool, rule.Rule_Allegation)
    \/ /\ rule.Level = "DataSet"
       /\ \/ ValueFilter(df, pool, extract_value_comparisons(rule.Rule_Allegation)).raised
          \/ extract_self_comparisons(rule.Rule_Allegation) = <<>>
          \/ \E i \in 1..Len(extract_self_comparisons(rule.Rule_Allegation)) :
                extract_self_comparisons(rule.Rule_Allegation)[i] \notin ColumnSet

\* the position of the rule in the processing order
PositionOf(rule) == CHOOSE i \in 1..Len(rules_sorted) : rules_sorted[i] = rule

\* C3: a rule that fails contributes no row, leaves the pool as it was, and the
\* loop goes on to the next rule or, after the last rule, to the return.
C3_FailureIsolation ==
    (last.what \in {"skip", "nomatch", "matched"}
        /\ RuleFails(claims_df, last.pool, last.rule)) =>
          /\ last.rows = <<>>
          /\ remaining_claims = last.pool
          /\ \A n \in 1..Len(all_results) : all_results[n][1].rule_id /= last.rule.Rule_ID
          /\ k = PositionOf(last.rule) + 1
          /\ pc \in {"loop", "return", "done"}

\* a failing rule was passed with claims in the pool and the rule after it matched
C3_Witness ==
    /\ pc = "done"
    /\ last.what = "matched"
    /\ \E n \in 1..Len(rules_sorted) :
          /\ n < PositionOf(last.rule)
          /\ RuleFails(claims_df, last.pool, rules_sorted[n])
          /\ rules_sorted[n].Level = "Record"

\* C4: with an empty claims table, an empty rules table or no rule matching,
\* the returned table has no rows and the claims columns followed by rule_id
\* and rule_desc.
C4_EmptyResultSchema ==
    (pc = "done" /\ (claims_df = <<>> \/ rules_df = <<>> \/ all_results = <<>>)) =>
        /\ results_df.rows = <<>>
        /\ results_df.columns = Columns \o <<"rule_id", "rule_desc">>

\* claims and rules were given and no rule matched
C4_Witness ==
    /\ pc = "done"
    /\ claims_df /= <<>>
    /\ rules_df /= <<>>
    /\ all_results = <<>>
    /\ last.what = "nomatch"

\* C9: after a rule that matched the pool is the pool before it without the
\* rows whose column values equal those of a matched row; after a rule that
\* did not match the pool is unchanged.
C9_PoolShrinksByRowIdentity ==
    /\ last.what = "matched" =>
          remaining_claims =
              SelectSeq(last.pool, LAMBDA r :
                  \A i \in 1..Len(last.rows) : claims_df[last.rows[i]] /= claims_df[r])
    /\ last.what \in {"nomatch", "skip"} => remaining_claims = last.pool

----------------------------------------------------------------------------
(* More properties of apply_dataset_level_rule (SpecDS).                   *)

\* the distance of a constraint when a date-named field on either side selects
\* the day count
EitherFieldDistance(row1, row2, fd) ==
    IF DateNamed(fd.field1) \/ DateNamed(fd.field2)
    THEN DateDiff(row1[fd.field1], row2[fd.field2])
    ELSE NumDiff(row1[fd.field1], row2[fd.field2])

\* rows i < j of one member in the prefiltered pool whose distance, chosen by
\* either field name, satisfies the constraint of the rule
EitherFieldPair(i, j) ==
    /\ i \in Prefiltered
    /\ j \in Prefiltered
    /\ i < j
    /\ claims_df[i].member_id = claims_df[j].member_id
    /\ DiffCmp(EitherFieldDistance(claims_df[i], claims_df[j],
                    extract_field_differences(ds_rule)[1]),
               ds_rule[2].op, ds_rule[2].lit.v)

\* C11: under member_id = member_id AND f1 - f2 op n the claims returned are
\* those of the pairs whose distance satisfies op n, the distance being the day
\* count when f1 or f2 is date-named and the numeric difference otherwise.
C11_DistanceMetricSelection ==
    (dpc = "done" /\ IsOneDifferenceRule(ds_rule) /\ ds_result.status /= "error") =>
        \A r \in 1..Len(claims_df) :
            (\E q \in Returned : claims_df[q] = claims_df[r])
            <=> (\E i, j \in 1..Len(claims_df) :
                    /\ EitherFieldPair(i, j)
                    /\ claims_df[r] \in {claims_df[i], claims_df[j]})

\* the field op literal comparisons of the rule, a bare = read as equality
ValueAtoms ==
    {n \in 1..Len(ds_rule) : ds_rule[n].t = "val"}

EqualityOp(o) == IF o = "=" THEN "==" ELSE o

\* the row satisfies the comparison
SatisfiesComparison(row, a) ==
    CmpElem(row[a.f1], EqualityOp(a.op), a.lit) = "T"

\* the condition without its atom n
WithoutAtom(cond, n) == SubSeq(cond, 1, n - 1) \o SubSeq(cond, n + 1, Len(cond))

\* C12: every returned row satisfies every field op literal comparison on a
\* column, a bare = being equality; a comparison on a field that is no column
\* changes nothing; when no row satisfies the comparisons nothing is returned.
C12_ConjunctivePrefilter ==
    dpc = "done" =>
        /\ \A r \in Returned : \A n \in ValueAtoms :
              ds_rule[n].f1 \in ColumnSet => SatisfiesComparison(claims_df[r], ds_rule[n])
        /\ \A n \in ValueAtoms :
              ds_rule[n].f1 \notin ColumnSet =>
                  ds_result = apply_dataset_level_rule(claims_df, AllRows,
                                                       WithoutAtom(ds_rule, n))
        /\ (\A r \in 1..Len(claims_df) : \E n \in ValueAtoms :
                /\ ds_rule[n].f1 \in ColumnSet
                /\ ~SatisfiesComparison(claims_df[r], ds_rule[n]))
              => ds_result.rows = <<>>

\* the rule has self-comparisons, all on columns, and field differences
IsPairwiseRule(cond) ==
    /\ extract_self_comparisons(cond) /= <<>>
    /\ \A n \in 1..Len(extract_self_comparisons(cond)) :
          extract_self_comparisons(cond)[n] \in ColumnSet
    /\ extract_field_differences(cond) /= <<>>

\* rows i < j of the prefiltered pool with the same self-comparison values for
\* which every constraint of the rule holds
AcceptedPair(i, j) ==
    /\ i \in Prefiltered
    /\ j \in Prefiltered
    /\ i < j
    /\ GroupKey(claims_df, i, extract_self_comparisons(ds_rule))
       = GroupKey(claims_df, j, extract_self_comparisons(ds_rule))
    /\ differences_met(claims_df[i], claims_df[j], extract_field_differences(ds_rule))

\* C13: under a rule with field differences the claims returned are those of
\* the pairs i < j of one group for which every constraint holds, both claims
\* of such a pair, and no row is returned twice.
C13_PairwiseAcceptance ==
    (dpc = "done" /\ IsPairwiseRule(ds_rule) /\ ds_result.status /= "error") =>
        /\ \A r \in 1..Len(claims_df) :
              (\E q \in Returned : claims_df[q] = claims_df[r])
              <=> (\E i, j \in 1..Len(claims_df) :
                      /\ AcceptedPair(i, j)
                      /\ claims_df[r] \in {claims_df[i], claims_df[j]})
        /\ \A a, b \in 1..Len(ds_result.rows) :
              a /= b => ds_result.rows[a] /= ds_result.rows[b]

----------------------------------------------------------------------------
(* More properties of apply_rules (Spec, FairSpec).                        *)

\* an evaluator was dispatched only on a pool with claims, the results of a run
\* that left the loop on an empty pool are the accumulated ones, and the loop
\* has made at most one pass per rule
DispatchedOnClaims ==
    /\ last.what \in {"matched", "nomatch", "skip"} => last.pool /= <<>>
    /\ (pc = "done" /\ last.what = "break") => results_df.rows = Concat(all_results)
    /\ k <= Len(rules_sorted) + 1

\* C14: an evaluator is dispatched only on a pool with claims; with an empty
\* pool at the start of a rule's iteration the loop is left with the results
\* as they are, which are then returned; every pass of the loop moves to the
\* next rule, and apply_rules comes to its return.
C14_EarlyTermination ==
    /\ DispatchedOnClaims
    /\ [][/\ DispatchedOnClaims'
          /\ (pc = "loop" /\ k <= Len(rules_sorted) /\ remaining_claims = <<>>)
                => (pc' = "return" /\ all_results' = all_results /\ k' = k)
          /\ (pc = "loop" /\ pc' = "loop") => k' = k + 1]_vars
    /\ <>(pc = "done")

\* the pool ran empty with a rule still to process, after a rule had matched
C14_Witness ==
    /\ pc = "done"
    /\ last.what = "break"
    /\ k <= Len(rules_sorted)
    /\ all_results /= <<>>
    /\ results_df.rows /= <<>>

\* the index labels of the rows reported so far
Reported ==
    UNION {{all_results[n][i].idx : i \in 1..Len(all_results[n])} : n \in 1..Len(all_results)}
InPool == {remaining_claims[i] : i \in 1..Len(remaining_claims)}

\* C15: once the pool is set up, every row of the claims table is in the pool
\* or has its own row in the accumulated results.
C15_ClaimConservation ==
    pc \in {"loop", "return", "done"} =>
        \A r \in 1..Len(claims_df) : r \in InPool \/ r \in Reported

====
